---- MODULE Spec2Model ----
(***************************************************************************)
(* The background task pipeline of api/main.py: process_video and          *)
(* process_audio seed a record in active_tasks and schedule                *)
(* download_and_process_video / download_and_process_audio, which run the  *)
(* fetch process (yt-dlp), locate its output, run the transcode process    *)
(* (ffmpeg) and write the job's record at every step; get_task_status      *)
(* reads the record.                                                       *)
(*                                                                         *)
(* Granularity.  Coroutines and request handlers run on one event loop: a  *)
(* coroutine runs alone from one await to the next.  The variable loop     *)
(* names the pipeline that is between two awaits; handlers and other       *)
(* pipelines take a step only when the loop is idle.  Inside such a block  *)
(* every statement that writes active_tasks is one step.  run_process (the *)
(* line-stream supervisor used when IS_WINDOWS) runs in a worker thread of *)
(* executor and interleaves with everything.                               *)
(***************************************************************************)
EXTENDS Integers, Sequences, FiniteSets, TLC

VARIABLES
    IS_WINDOWS,     \* platform.system() == "Windows"
    active_tasks,   \* the module-level dict: task_id -> record (a dict)
    dictId,         \* identity of the dict object stored under each task_id
    req,            \* the arguments the background task was scheduled with
    pc,             \* position of each job's pipeline ("closed": no such submission)
    loop,           \* the pipeline running on the event loop, or Idle
    fproc,          \* the fetch process of each job
    tproc,          \* the transcode process of each job
    tstderr,        \* what the transcode process wrote to standard error
    elapsed,        \* time.time() - start_time of the transcode stage
    files,          \* whether DOWNLOAD_DIR holds a file named <task_id>.*
    resp,           \* the reply of get_task_status, when the last step served one
    observed,       \* what a polling client last read of each job
    call,           \* the last call of a pure function: its arguments and result
    stderr_pipe     \* bytes each process of a job has written to standard error, unread

vars == <<IS_WINDOWS, active_tasks, dictId, req, pc, loop, fproc, tproc,
          tstderr, elapsed, files, resp, observed, call, stderr_pipe>>

(***************************************************************************)
(* Bounds of the model.                                                    *)
(***************************************************************************)
MaxJobs == 1        \* submissions a run of one job at a time accepts
PairJobs == 2       \* submissions a run of concurrent jobs accepts
MaxBytes == 2       \* byte counters of a progress line range over 0..MaxBytes
MaxPolls == 2       \* the clock of a transcode stage stops after this many advances
Stall == 14         \* extra seconds the event loop may take to resume a sleeper
MaxPick == 3        \* characters of an explicit video pick
PipeCap == 2        \* bytes a standard-error pipe and its reader buffer hold

(***************************************************************************)
(* Program constants.                                                      *)
(***************************************************************************)
FetchFloor == 5
FetchSpan == 40
FetchCeil == 45
FetchStart == 10
ProcessingStart == 50
TranscodeFloor == 60
TranscodeSpan == 30
TranscodeCeil == 90
VideoBudget == 30
AudioBudget == 20
SleepSec == 1
MaxWorkers == 4
Done100 == 100

TaskIds == 1..PairJobs
QueryIds == 1..(MaxJobs + 1)
Idle == 0
AudioFormats == {"mp3", "m4a", "ogg", "wav"}
RequestFormats == {"mkv"}
ExcDescs == {"[Errno 2] No such file or directory"}
StderrTexts == {"", "Conversion failed!"}

Min(a, b) == IF a < b THEN a ELSE b

(***************************************************************************)
(* Records.  A dict is a record whose domain is the set of its keys: a key *)
(* that was never written is not in the domain.                            *)
(***************************************************************************)
Msg(text) == [text |-> text]
PctMsg(text, percent) == [text |-> text, pct |-> percent]

IsSet(rec, key) == key \in DOMAIN rec

PendingRecord(kind) ==
    [status |-> "pending", progress |-> 0,
     message |-> Msg(IF kind = "video" THEN "Task queued" ELSE "Audio task queued")]

DownloadingRecord(kind) ==
    [status |-> "downloading", progress |-> FetchFloor,
     message |-> Msg(IF kind = "video" THEN "Starting download..."
                                        ELSE "Starting audio download...")]

DownloadingText(kind) ==
    IF kind = "video" THEN "Downloading video..." ELSE "Downloading audio..."

FetchFailedRecord(kind) ==
    [status |-> "failed", progress |-> 0,
     message |-> Msg(IF kind = "video" THEN "Download failed" ELSE "Audio download failed"),
     error |-> "Process exited with non-zero code"]

\* NoFileRecord as it would be if the progress reached by the fetch were kept
NoFileRecordKeepsProgress(kind) ==
    [status |-> "failed", progress |-> FetchCeil,
     message |-> Msg(IF kind = "video" THEN "Download failed - no file found"
                                        ELSE "Audio download failed - no file found")]

NoFileRecord(kind) ==
    [status |-> "failed", progress |-> 0,
     message |-> Msg(IF kind = "video" THEN "Download failed - no file found"
                                        ELSE "Audio download failed - no file found")]

\* ProcessingRecord as it would be if the audio pipeline entered the transcode
\* stage at the floor of its sub-range
ProcessingRecordAudioAtFloor(kind) ==
    [status |-> "processing",
     progress |-> IF kind = "video" THEN ProcessingStart ELSE TranscodeFloor,
     message |-> Msg(IF kind = "video" THEN "Processing video..." ELSE "Processing audio...")]

ProcessingRecord(kind) ==
    [status |-> "processing", progress |-> ProcessingStart,
     message |-> Msg(IF kind = "video" THEN "Processing video..." ELSE "Processing audio...")]

ConvertingText(kind) ==
    IF kind = "video" THEN "Converting video format..." ELSE "Converting audio format..."

ProcessingText(kind) ==
    IF kind = "video" THEN "Processing video..." ELSE "Processing audio..."

\* TranscodeFailedRecord as it would be without the default for an empty text
TranscodeFailedRecordRaw(kind, stderr) ==
    [status |-> "failed", progress |-> 0,
     message |-> Msg(IF kind = "video" THEN "Processing failed" ELSE "Audio processing failed"),
     error |-> stderr]

TranscodeFailedRecord(kind, stderr) ==
    [status |-> "failed", progress |-> 0,
     message |-> Msg(IF kind = "video" THEN "Processing failed" ELSE "Audio processing failed"),
     error |-> IF stderr # "" THEN stderr ELSE "Unknown error"]

OutputFormat(kind, fmt) ==
    IF kind = "audio" /\ fmt \notin AudioFormats THEN "mp3" ELSE fmt

\* DownloadUrl as it would be if it named the fetched file, not the output
DownloadUrlOfFetched(task_id, kind, fmt) ==
    <<"/downloads/", task_id, ".", "webm">>

DownloadUrl(task_id, kind, fmt) ==
    <<"/downloads/", task_id, ".", OutputFormat(kind, fmt)>>

CompletedRecord(task_id, kind, fmt) ==
    [status |-> "completed", progress |-> Done100,
     message |-> Msg(IF kind = "video" THEN "Ready for download"
                                        ELSE "Audio ready for download"),
     download_url |-> DownloadUrl(task_id, kind, fmt)]

ExceptionRecord(kind, desc) ==
    [status |-> "failed", progress |-> 0,
     message |-> Msg(IF kind = "video" THEN "Processing failed" ELSE "Audio processing failed"),
     error |-> desc]

(***************************************************************************)
(* The Progress Mapper.                                                    *)
(***************************************************************************)
\* one line of the fetch process's standard output
Lines ==
    [kind : {"counts"}, d : 0..MaxBytes, t : 0..MaxBytes]
        \cup {[kind |-> "na"], [kind |-> "noslash"], [kind |-> "other"]}

\* the line passes every test of the parser and no conversion raises
LineHasPercent(line) == line.kind = "counts" /\ line.t > 0

\* FetchPercent as progress_hook computes it: int((downloaded / total) * 40) + 5
FetchPercentOfHook(line) ==
    (line.d * FetchSpan) \div line.t + FetchFloor

\* min(45, 5 + int((int(downloaded) / int(total)) * 40))
FetchPercent(line) ==
    Min(FetchCeil, FetchFloor + (line.d * FetchSpan) \div line.t)

Budget(kind) == IF kind = "video" THEN VideoBudget ELSE AudioBudget

\* TranscodePercent as it would be with the video budget for every job
TranscodePercentOneBudget(kind, secs) ==
    Min(TranscodeCeil, TranscodeFloor + (secs * TranscodeSpan) \div VideoBudget)

\* min(90, 60 + int(elapsed / budget * 30))
TranscodePercent(kind, secs) ==
    Min(TranscodeCeil, TranscodeFloor + (secs * TranscodeSpan) \div Budget(kind))

\* the clock of a transcode stage at start_time; the loop is the only reader of
\* start_time and elapsed, so the clock is dropped when the loop is left
NoClock == [secs |-> 0, polls |-> 0]

(***************************************************************************)
(* Writes to active_tasks.                                                 *)
(***************************************************************************)
\* active_tasks[task_id] = {...}: a new dict is stored under the key
Replace(task_id, rec) ==
    /\ active_tasks' = [active_tasks EXCEPT ![task_id] = rec]
    /\ dictId' = [dictId EXCEPT ![task_id] = @ + 1]

\* active_tasks[task_id][key] = value: the stored dict is changed in place
SetField(task_id, key, value) ==
    /\ active_tasks' =
         [active_tasks EXCEPT ![task_id] =
            [k \in DOMAIN @ \cup {key} |-> IF k = key THEN value ELSE @[k]]]
    /\ UNCHANGED dictId

\* nothing was written to the standard-error pipes of a job's two processes
NoBytes == [fetch |-> 0, transcode |-> 0]

\* no pure function was called
NoCall == [fn |-> "none"]

\* resp.nth counts the status requests served in a row, up to 2; resp.reply is
\* the last of them.  No request was served by the last step:
NoResponse == [nth |-> 0]

Init ==
    /\ IS_WINDOWS \in BOOLEAN
    /\ active_tasks = <<>>
    /\ dictId = [j \in TaskIds |-> 0]
    /\ req = [j \in TaskIds |-> [kind |-> "video", format |-> "mp4"]]
    /\ pc = [j \in TaskIds |-> IF j <= MaxJobs THEN "none" ELSE "closed"]
    /\ loop = Idle
    /\ fproc = [j \in TaskIds |-> "none"]
    /\ tproc = [j \in TaskIds |-> "none"]
    /\ tstderr = [j \in TaskIds |-> ""]
    /\ elapsed = [j \in TaskIds |-> NoClock]
    /\ files = [j \in TaskIds |-> FALSE]
    /\ resp = NoResponse
    /\ observed = [j \in TaskIds |-> NoResponse]
    /\ call = NoCall
    /\ stderr_pipe = [j \in TaskIds |-> NoBytes]

\* the same, for a run that accepts PairJobs submissions
PairInit ==
    /\ IS_WINDOWS \in BOOLEAN
    /\ active_tasks = <<>>
    /\ dictId = [j \in TaskIds |-> 0]
    /\ req = [j \in TaskIds |-> [kind |-> "video", format |-> "mp4"]]
    /\ pc = [j \in TaskIds |-> "none"]
    /\ loop = Idle
    /\ fproc = [j \in TaskIds |-> "none"]
    /\ tproc = [j \in TaskIds |-> "none"]
    /\ tstderr = [j \in TaskIds |-> ""]
    /\ elapsed = [j \in TaskIds |-> NoClock]
    /\ files = [j \in TaskIds |-> FALSE]
    /\ resp = NoResponse
    /\ observed = [j \in TaskIds |-> NoResponse]
    /\ call = NoCall
    /\ stderr_pipe = [j \in TaskIds |-> NoBytes]

(***************************************************************************)
(* Submission: process_video and process_audio.  uuid4 never repeats: the  *)
(* new identifier is the next unused one.                                  *)
(***************************************************************************)
NewTaskId == Cardinality(DOMAIN active_tasks) + 1

\* process_audio: a format outside the list is replaced by mp3
AudioFormat(fmt) == IF fmt \notin AudioFormats THEN "mp3" ELSE fmt

\* Seed as it would be if a submission rebuilt the map around its own record
SeedAlone(task_id, kind, fmt) ==
    /\ active_tasks' = (task_id :> PendingRecord(kind))
    /\ dictId' = [dictId EXCEPT ![task_id] = @ + 1]
    /\ req' = [req EXCEPT ![task_id] = [kind |-> kind, format |-> fmt]]
    /\ pc' = [pc EXCEPT ![task_id] = "start"]
    /\ resp' = NoResponse
    /\ UNCHANGED <<IS_WINDOWS, loop, fproc, tproc, tstderr, elapsed, files, observed, call, stderr_pipe>>

Seed(task_id, kind, fmt) ==
    /\ active_tasks' = active_tasks @@ (task_id :> PendingRecord(kind))
    /\ dictId' = [dictId EXCEPT ![task_id] = @ + 1]
    /\ req' = [req EXCEPT ![task_id] = [kind |-> kind, format |-> fmt]]
    /\ pc' = [pc EXCEPT ![task_id] = "start"]
    /\ resp' = NoResponse
    /\ UNCHANGED <<IS_WINDOWS, loop, fproc, tproc, tstderr, elapsed, files, observed, call, stderr_pipe>>

process_video(fmt) ==
    /\ loop = Idle
    /\ NewTaskId \in DOMAIN pc
    /\ pc[NewTaskId] = "none"
    /\ Seed(NewTaskId, "video", fmt)

process_audio(fmt) ==
    /\ loop = Idle
    /\ NewTaskId \in DOMAIN pc
    /\ pc[NewTaskId] = "none"
    /\ Seed(NewTaskId, "audio", AudioFormat(fmt))

(***************************************************************************)
(* The status read.                                                        *)
(***************************************************************************)
NotFound(task_id) == [code |-> 404, task_id |-> task_id]
Found(task_id) == [code |-> 200, task_id |-> task_id, body |-> active_tasks[task_id]]

\* get_task_status as it would be if it dropped the record of an ended job
\* once it has served it
get_task_status_evicts(task_id) ==
    /\ loop = Idle
    /\ resp' = [nth |-> Min(resp.nth + 1, 2),
                reply |-> IF task_id \notin DOMAIN active_tasks
                            THEN NotFound(task_id) ELSE Found(task_id)]
    /\ active_tasks' =
         IF task_id \in DOMAIN active_tasks
              /\ active_tasks[task_id].status \in {"completed", "failed"}
           THEN [j \in DOMAIN active_tasks \ {task_id} |-> active_tasks[j]]
           ELSE active_tasks
    /\ UNCHANGED <<IS_WINDOWS, dictId, req, pc, loop, fproc, tproc,
                   tstderr, elapsed, files, call, stderr_pipe>>

\* get_task_status as it would be if it read with a default (setdefault): an
\* unknown identifier gets a pending record
get_task_status_fabricates(task_id) ==
    /\ loop = Idle
    /\ active_tasks' =
         IF task_id \in DOMAIN active_tasks THEN active_tasks
           ELSE active_tasks @@ (task_id :> PendingRecord("video"))
    /\ resp' = [nth |-> Min(resp.nth + 1, 2),
                reply |-> [code |-> 200, task_id |-> task_id,
                           body |-> active_tasks'[task_id]]]
    /\ UNCHANGED <<IS_WINDOWS, dictId, req, pc, loop, fproc, tproc,
                   tstderr, elapsed, files, call, stderr_pipe>>

get_task_status(task_id) ==
    /\ loop = Idle
    /\ resp' = [nth |-> Min(resp.nth + 1, 2),
                reply |-> IF task_id \notin DOMAIN active_tasks
                            THEN NotFound(task_id) ELSE Found(task_id)]
    /\ UNCHANGED <<IS_WINDOWS, active_tasks, dictId, req, pc, loop, fproc, tproc,
                   tstderr, elapsed, files, call, stderr_pipe>>

\* a request for the status of task_id, from a caller that keeps nothing
StatusRequest(task_id) ==
    /\ get_task_status(task_id)
    /\ UNCHANGED observed

\* a request from a client that polls its job and keeps what it read
ClientPoll(task_id) ==
    /\ task_id \in DOMAIN active_tasks
    /\ get_task_status(task_id)
    /\ observed' = [observed EXCEPT ![task_id] = [nth |-> 1, reply |-> Found(task_id)]]

(***************************************************************************)
(* The pipeline: download_and_process_video and download_and_process_audio *)
(* are the same steps with their own texts and time budget.                *)
(***************************************************************************)
KindOf(task_id) == req[task_id].kind

\* a step of the pipeline of task_id that leaves the processes and the files alone
Goto(task_id, label, owner) ==
    /\ pc' = [pc EXCEPT ![task_id] = label]
    /\ loop' = owner
    /\ resp' = NoResponse
    /\ UNCHANGED <<IS_WINDOWS, req, observed, call, stderr_pipe>>

\* the pipeline as it would be without its outer try: the exception leaves the
\* function and the record stays as it was
ExceptionEscapes(task_id, desc) ==
    /\ UNCHANGED <<active_tasks, dictId>>
    /\ Goto(task_id, "done", Idle)

\* the handler as it would be if it failed every job in the map
CatchExceptionFailsAll(task_id, desc) ==
    /\ active_tasks' = [j \in DOMAIN active_tasks |-> ExceptionRecord(KindOf(j), desc)]
    /\ dictId' = [j \in TaskIds |-> IF j \in DOMAIN active_tasks THEN dictId[j] + 1
                                                               ELSE dictId[j]]
    /\ Goto(task_id, "done", Idle)

\* the handler as it would be if it kept the cause to itself
CatchExceptionHidesCause(task_id, desc) ==
    /\ Replace(task_id, ExceptionRecord(KindOf(task_id), "Internal error"))
    /\ Goto(task_id, "done", Idle)

\* the handler of "except Exception as e" at the end of the pipeline
CatchException(task_id, desc) ==
    /\ Replace(task_id, ExceptionRecord(KindOf(task_id), desc))
    /\ Goto(task_id, "done", Idle)

\* the background task starts: active_tasks[task_id] = {"status": "downloading", ...}
SeedDownloading(task_id) ==
    /\ pc[task_id] = "start"
    /\ loop = Idle
    /\ Replace(task_id, DownloadingRecord(KindOf(task_id)))
    /\ Goto(task_id, "set10", task_id)
    /\ UNCHANGED <<fproc, tproc, tstderr, elapsed, files>>

\* active_tasks[task_id]["progress"] = 10
SetFetchStart(task_id) ==
    /\ pc[task_id] = "set10"
    /\ loop = task_id
    /\ SetField(task_id, "progress", FetchStart)
    /\ Goto(task_id, "msg10", task_id)
    /\ UNCHANGED <<fproc, tproc, tstderr, elapsed, files>>

\* active_tasks[task_id]["message"] = "Downloading video..."
SetFetchMessage(task_id) ==
    /\ pc[task_id] = "msg10"
    /\ loop = task_id
    /\ SetField(task_id, "message", Msg(DownloadingText(KindOf(task_id))))
    /\ Goto(task_id, "launch", task_id)
    /\ UNCHANGED <<fproc, tproc, tstderr, elapsed, files>>

(***************************************************************************)
(* The fetch stage: run_with_progress.                                     *)
(***************************************************************************)
\* not IS_WINDOWS: await asyncio.create_subprocess_exec(*cmd, ...)
LaunchFetch(task_id) ==
    /\ pc[task_id] = "launch"
    /\ loop = task_id
    /\ ~IS_WINDOWS
    /\ \/ /\ fproc' = [fproc EXCEPT ![task_id] = "running"]
          /\ Goto(task_id, "readline", Idle)
          /\ UNCHANGED <<active_tasks, dictId>>
       \/ /\ \E desc \in ExcDescs : CatchException(task_id, desc)
          /\ UNCHANGED fproc
    /\ UNCHANGED <<tproc, tstderr, elapsed, files>>

\* IS_WINDOWS: await loop.run_in_executor(executor, run_process)
SubmitToExecutor(task_id) ==
    /\ pc[task_id] = "launch"
    /\ loop = task_id
    /\ IS_WINDOWS
    /\ Goto(task_id, "t_queued", Idle)
    /\ UNCHANGED <<active_tasks, dictId, fproc, tproc, tstderr, elapsed, files>>

\* the pipelines whose run_process occupies a worker thread of executor
InThread == {j \in DOMAIN pc : pc[j] \in {"t_popen", "t_line", "t_msg"}}

\* WorkerTakes as it would be if executor started a thread for every call
WorkerTakesUnbounded(task_id) ==
    /\ pc[task_id] = "t_queued"
    /\ Goto(task_id, "t_popen", loop)
    /\ UNCHANGED <<active_tasks, dictId, fproc, tproc, tstderr, elapsed, files>>

\* a worker thread of executor takes run_process from the queue
WorkerTakes(task_id) ==
    /\ pc[task_id] = "t_queued"
    /\ Cardinality(InThread) < MaxWorkers
    /\ Goto(task_id, "t_popen", loop)
    /\ UNCHANGED <<active_tasks, dictId, fproc, tproc, tstderr, elapsed, files>>

\* run_process: subprocess.Popen(cmd, ...); what it raises reaches the pipeline
\* through the future
RunProcessPopen(task_id) ==
    /\ pc[task_id] = "t_popen"
    /\ \/ /\ fproc' = [fproc EXCEPT ![task_id] = "running"]
          /\ Goto(task_id, "t_line", loop)
       \/ /\ Goto(task_id, "future_raised", loop)
          /\ UNCHANGED fproc
    /\ UNCHANGED <<active_tasks, dictId, tproc, tstderr, elapsed, files>>

\* the pipeline resumes with the exception of the future
FutureRaised(task_id) ==
    /\ pc[task_id] = "future_raised"
    /\ loop = Idle
    /\ \E desc \in ExcDescs : CatchException(task_id, desc)
    /\ UNCHANGED <<fproc, tproc, tstderr, elapsed, files>>

\* the progress write of a line: active_tasks[task_id]["progress"] = percent
WriteLineProgress(task_id, line) ==
    SetField(task_id, "progress", FetchPercent(line))

\* the message write of a line: f"Downloading video... {percent}%"
WriteLineMessage(task_id) ==
    SetField(task_id, "message",
             PctMsg(DownloadingText(KindOf(task_id)), active_tasks[task_id].progress))

\* not IS_WINDOWS: line = await process.stdout.readline(), a line was read
ReadLine(task_id, line) ==
    /\ pc[task_id] = "readline"
    /\ loop = Idle
    /\ fproc[task_id] = "running"
    /\ IF LineHasPercent(line)
         THEN /\ WriteLineProgress(task_id, line)
              /\ Goto(task_id, "u_msg", task_id)
         ELSE /\ Goto(task_id, "readline", Idle)
              /\ UNCHANGED <<active_tasks, dictId>>
    /\ UNCHANGED <<fproc, tproc, tstderr, elapsed, files>>

\* readline raises (a line longer than the stream's limit): outside the inner try
ReadLineRaises(task_id) ==
    /\ pc[task_id] = "readline"
    /\ loop = Idle
    /\ fproc[task_id] = "running"
    /\ \E desc \in ExcDescs : CatchException(task_id, desc)
    /\ UNCHANGED <<fproc, tproc, tstderr, elapsed, files>>

SetLineMessage(task_id) ==
    /\ pc[task_id] = "u_msg"
    /\ loop = task_id
    /\ WriteLineMessage(task_id)
    /\ Goto(task_id, "readline", Idle)
    /\ UNCHANGED <<fproc, tproc, tstderr, elapsed, files>>

\* readline returns b"": break, await process.wait(), return process.returncode
ReadEof(task_id) ==
    /\ pc[task_id] = "readline"
    /\ loop = Idle
    /\ fproc[task_id] \in {"exit0", "exit1"}
    /\ Goto(task_id, "check_rc", Idle)
    /\ UNCHANGED <<active_tasks, dictId, fproc, tproc, tstderr, elapsed, files>>

\* run_process, in its worker thread: for line in process.stdout
ThreadLine(task_id, line) ==
    /\ pc[task_id] = "t_line"
    /\ fproc[task_id] = "running"
    /\ IF LineHasPercent(line)
         THEN /\ WriteLineProgress(task_id, line)
              /\ Goto(task_id, "t_msg", loop)
         ELSE /\ Goto(task_id, "t_line", loop)
              /\ UNCHANGED <<active_tasks, dictId>>
    /\ UNCHANGED <<fproc, tproc, tstderr, elapsed, files>>

ThreadLineMessage(task_id) ==
    /\ pc[task_id] = "t_msg"
    /\ WriteLineMessage(task_id)
    /\ Goto(task_id, "t_line", loop)
    /\ UNCHANGED <<fproc, tproc, tstderr, elapsed, files>>

\* the stream ends: process.wait(), process.stderr.read(), the future resolves
ThreadEof(task_id) ==
    /\ pc[task_id] = "t_line"
    /\ fproc[task_id] \in {"exit0", "exit1"}
    /\ Goto(task_id, "check_rc", loop)
    /\ UNCHANGED <<active_tasks, dictId, fproc, tproc, tstderr, elapsed, files>>

\* the fetch process exits with a code, having written <task_id>.<ext> or not
FetchExit(task_id, code, wrote) ==
    /\ fproc[task_id] = "running"
    /\ fproc' = [fproc EXCEPT ![task_id] = code]
    /\ files' = [files EXCEPT ![task_id] = wrote]
    /\ resp' = NoResponse
    /\ UNCHANGED <<IS_WINDOWS, active_tasks, dictId, req, pc, loop, tproc, tstderr,
                   elapsed, observed, call, stderr_pipe>>

\* CheckFetch as it would be if it did not test the exit code
CheckFetchIgnoresCode(task_id) ==
    /\ pc[task_id] = "check_rc"
    /\ loop = Idle
    /\ IF ~files[task_id]
         THEN /\ Replace(task_id, NoFileRecord(KindOf(task_id)))
              /\ Goto(task_id, "done", Idle)
         ELSE /\ Replace(task_id, ProcessingRecord(KindOf(task_id)))
              /\ Goto(task_id, "set60", task_id)
    /\ UNCHANGED <<fproc, tproc, tstderr, elapsed, files>>

\* CheckFetch as it would be if it did not look for the fetched file
CheckFetchSkipsGlob(task_id) ==
    /\ pc[task_id] = "check_rc"
    /\ loop = Idle
    /\ IF fproc[task_id] # "exit0"
         THEN /\ Replace(task_id, FetchFailedRecord(KindOf(task_id)))
              /\ Goto(task_id, "done", Idle)
         ELSE /\ Replace(task_id, ProcessingRecord(KindOf(task_id)))
              /\ Goto(task_id, "set60", task_id)
    /\ UNCHANGED <<fproc, tproc, tstderr, elapsed, files>>

\* CheckFetch as it would be without the write of the processing record
CheckFetchSkipsProcessing(task_id) ==
    /\ pc[task_id] = "check_rc"
    /\ loop = Idle
    /\ IF fproc[task_id] # "exit0"
         THEN /\ Replace(task_id, FetchFailedRecord(KindOf(task_id)))
              /\ Goto(task_id, "done", Idle)
         ELSE IF ~files[task_id]
           THEN /\ Replace(task_id, NoFileRecord(KindOf(task_id)))
                /\ Goto(task_id, "done", Idle)
           ELSE /\ UNCHANGED <<active_tasks, dictId>>
                /\ Goto(task_id, "set60", task_id)
    /\ UNCHANGED <<fproc, tproc, tstderr, elapsed, files>>

\* CheckFetch as it would be without the return after its failed records
CheckFetchFallsThrough(task_id) ==
    /\ pc[task_id] = "check_rc"
    /\ loop = Idle
    /\ IF fproc[task_id] # "exit0"
         THEN Replace(task_id, FetchFailedRecord(KindOf(task_id)))
         ELSE IF ~files[task_id]
           THEN Replace(task_id, NoFileRecord(KindOf(task_id)))
           ELSE Replace(task_id, ProcessingRecord(KindOf(task_id)))
    /\ Goto(task_id, "set60", task_id)
    /\ UNCHANGED <<fproc, tproc, tstderr, elapsed, files>>

\* if returncode != 0, then glob, then active_tasks[task_id] = {"status": "processing", ...}
CheckFetch(task_id) ==
    /\ pc[task_id] = "check_rc"
    /\ loop = Idle
    /\ IF fproc[task_id] # "exit0"
         THEN /\ Replace(task_id, FetchFailedRecord(KindOf(task_id)))
              /\ Goto(task_id, "done", Idle)
         ELSE IF ~files[task_id]
           THEN /\ Replace(task_id, NoFileRecord(KindOf(task_id)))
                /\ Goto(task_id, "done", Idle)
           ELSE /\ Replace(task_id, ProcessingRecord(KindOf(task_id)))
                /\ Goto(task_id, "set60", task_id)
    /\ UNCHANGED <<fproc, tproc, tstderr, elapsed, files>>

(***************************************************************************)
(* The transcode stage.                                                    *)
(***************************************************************************)
\* active_tasks[task_id]["progress"] = 60
SetTranscodeStart(task_id) ==
    /\ pc[task_id] = "set60"
    /\ loop = task_id
    /\ SetField(task_id, "progress", TranscodeFloor)
    /\ Goto(task_id, "msg60", task_id)
    /\ UNCHANGED <<fproc, tproc, tstderr, elapsed, files>>

\* active_tasks[task_id]["message"] = "Converting video format..."
SetTranscodeMessage(task_id) ==
    /\ pc[task_id] = "msg60"
    /\ loop = task_id
    /\ SetField(task_id, "message", Msg(ConvertingText(KindOf(task_id))))
    /\ Goto(task_id, "launch_ff", task_id)
    /\ UNCHANGED <<fproc, tproc, tstderr, elapsed, files>>

\* IS_WINDOWS: subprocess.Popen(ffmpeg_cmd, ...) and on into the loop;
\* otherwise await asyncio.create_subprocess_exec(*ffmpeg_cmd, ...)
LaunchTranscode(task_id) ==
    /\ pc[task_id] = "launch_ff"
    /\ loop = task_id
    /\ \/ /\ tproc' = [tproc EXCEPT ![task_id] = "running"]
          /\ Goto(task_id, "poll", IF IS_WINDOWS THEN task_id ELSE Idle)
          /\ UNCHANGED <<active_tasks, dictId>>
       \/ /\ \E desc \in ExcDescs : CatchException(task_id, desc)
          /\ UNCHANGED tproc
    /\ UNCHANGED <<fproc, tstderr, elapsed, files>>

\* the loop's test finds the process running: the progress write of the poll loop
PollProgress(task_id) ==
    /\ pc[task_id] = "poll"
    /\ loop \in {Idle, task_id}
    /\ tproc[task_id] = "running"
    /\ SetField(task_id, "progress",
                TranscodePercent(KindOf(task_id), elapsed[task_id].secs))
    /\ Goto(task_id, "poll_msg", task_id)
    /\ UNCHANGED <<fproc, tproc, tstderr, elapsed, files>>

\* f"Processing video... {progress}%", then await asyncio.sleep(1)
PollMessage(task_id) ==
    /\ pc[task_id] = "poll_msg"
    /\ loop = task_id
    /\ SetField(task_id, "message",
                PctMsg(ProcessingText(KindOf(task_id)), active_tasks[task_id].progress))
    /\ Goto(task_id, "sleep", Idle)
    /\ UNCHANGED <<fproc, tproc, tstderr, elapsed, files>>

\* the sleep ends after SleepSec seconds or later
Advance(clock, delay) ==
    IF clock.polls < MaxPolls
      THEN [secs |-> clock.secs + delay, polls |-> clock.polls + 1]
      ELSE clock

Wake(task_id, delay) ==
    /\ pc[task_id] = "sleep"
    /\ loop = Idle
    /\ elapsed' = [elapsed EXCEPT ![task_id] = Advance(@, delay)]
    /\ Goto(task_id, "poll", task_id)
    /\ UNCHANGED <<active_tasks, dictId, fproc, tproc, tstderr, files>>

\* the loop's test finds the process exited: wait, read standard error
PollExit(task_id) ==
    /\ pc[task_id] = "poll"
    /\ loop \in {Idle, task_id}
    /\ tproc[task_id] \in {"exit0", "exit1"}
    /\ elapsed' = [elapsed EXCEPT ![task_id] = NoClock]
    /\ Goto(task_id, "check_ff", IF IS_WINDOWS THEN task_id ELSE Idle)
    /\ UNCHANGED <<active_tasks, dictId, fproc, tproc, tstderr, files>>

\* the transcode process exits, having written text to standard error
TranscodeExit(task_id, code, text) ==
    /\ tproc[task_id] = "running"
    /\ tproc' = [tproc EXCEPT ![task_id] = code]
    /\ tstderr' = [tstderr EXCEPT ![task_id] = text]
    /\ resp' = NoResponse
    /\ UNCHANGED <<IS_WINDOWS, active_tasks, dictId, req, pc, loop, fproc, elapsed,
                   files, observed, call, stderr_pipe>>

\* TranscodeFailed as it would be if the failure path removed the fetched file
TranscodeFailedCleansUp(task_id) ==
    /\ pc[task_id] = "check_ff"
    /\ loop \in {Idle, task_id}
    /\ tproc[task_id] = "exit1"
    /\ Replace(task_id, TranscodeFailedRecord(KindOf(task_id), tstderr[task_id]))
    /\ Goto(task_id, "done", Idle)
    /\ files' = [files EXCEPT ![task_id] = FALSE]
    /\ UNCHANGED <<fproc, tproc, tstderr, elapsed>>

\* if returncode != 0: the failed record and return
TranscodeFailed(task_id) ==
    /\ pc[task_id] = "check_ff"
    /\ loop \in {Idle, task_id}
    /\ tproc[task_id] = "exit1"
    /\ Replace(task_id, TranscodeFailedRecord(KindOf(task_id), tstderr[task_id]))
    /\ Goto(task_id, "done", Idle)
    /\ UNCHANGED <<fproc, tproc, tstderr, elapsed, files>>

\* downloaded_file.unlink(missing_ok=True): deletes the file, or raises
Unlink(task_id) ==
    /\ pc[task_id] = "check_ff"
    /\ loop \in {Idle, task_id}
    /\ tproc[task_id] = "exit0"
    /\ \/ /\ files' = [files EXCEPT ![task_id] = FALSE]
          /\ Goto(task_id, "complete", task_id)
          /\ UNCHANGED <<active_tasks, dictId>>
       \/ /\ \E desc \in ExcDescs : CatchException(task_id, desc)
          /\ UNCHANGED files
    /\ UNCHANGED <<fproc, tproc, tstderr, elapsed>>

\* active_tasks[task_id] = {"status": "completed", ...}
Complete(task_id) ==
    /\ pc[task_id] = "complete"
    /\ loop = task_id
    /\ Replace(task_id, CompletedRecord(task_id, KindOf(task_id), req[task_id].format))
    /\ Goto(task_id, "done", Idle)
    /\ UNCHANGED <<fproc, tproc, tstderr, elapsed, files>>

(***************************************************************************)
(* The system.                                                             *)
(***************************************************************************)
\* the steps the pipeline of task_id takes by itself
PipelineStep(task_id) ==
    \/ SeedDownloading(task_id)
    \/ SetFetchStart(task_id)
    \/ SetFetchMessage(task_id)
    \/ LaunchFetch(task_id)
    \/ SubmitToExecutor(task_id)
    \/ WorkerTakes(task_id)
    \/ RunProcessPopen(task_id)
    \/ FutureRaised(task_id)
    \/ SetLineMessage(task_id)
    \/ ReadEof(task_id)
    \/ ThreadLineMessage(task_id)
    \/ ThreadEof(task_id)
    \/ CheckFetch(task_id)
    \/ SetTranscodeStart(task_id)
    \/ SetTranscodeMessage(task_id)
    \/ LaunchTranscode(task_id)
    \/ PollProgress(task_id)
    \/ PollMessage(task_id)
    \/ PollExit(task_id)
    \/ TranscodeFailed(task_id)
    \/ Unlink(task_id)
    \/ Complete(task_id)

ExitCodes == {"exit0", "exit1"}
Delays == {SleepSec, SleepSec + Stall}

\* the transcode process ends: silently with code 0, or with a non-zero code
TranscodeExits(task_id) ==
    \/ TranscodeExit(task_id, "exit0", "")
    \/ \E text \in StderrTexts : TranscodeExit(task_id, "exit1", text)

\* the fetch process ends; it may or may not have written <task_id>.<ext>
FetchExits(task_id) ==
    \E code \in ExitCodes, wrote \in BOOLEAN : FetchExit(task_id, code, wrote)

\* what the environment does to the pipeline of task_id
Environment(task_id) ==
    \/ \E line \in Lines : ReadLine(task_id, line)
    \/ \E line \in Lines : ThreadLine(task_id, line)
    \/ ReadLineRaises(task_id)
    \/ FetchExits(task_id)
    \/ TranscodeExits(task_id)
    \/ \E delay \in Delays : Wake(task_id, delay)

\* submissions and pipelines
Next ==
    \/ \E fmt \in RequestFormats : process_video(fmt)
    \/ \E fmt \in RequestFormats : process_audio(fmt)
    \/ \E task_id \in TaskIds : PipelineStep(task_id)
    \/ \E task_id \in TaskIds : Environment(task_id)

Spec == Init /\ [][Next]_vars

\* the same with callers that ask for the status of any identifier
PollNext ==
    \/ Next
    \/ \E task_id \in QueryIds : StatusRequest(task_id)

PollSpec == Init /\ [][PollNext]_vars

\* the same with a client that polls its job until it ends
WatchNext ==
    \/ Next
    \/ \E task_id \in TaskIds : ClientPoll(task_id)

WatchSpec == Init /\ [][WatchNext]_vars

\* concurrent jobs, and callers that ask for their status
PairSpec == PairInit /\ [][PollNext]_vars

\* every pipeline runs on: the event loop resumes a ready coroutine, a worker
\* thread runs, a sleep ends
Scheduled(task_id) ==
    WF_vars(PipelineStep(task_id) \/ \E delay \in Delays : Wake(task_id, delay))

\* every launched process exits
FairSpec ==
    /\ Init /\ [][Next]_vars
    /\ \A task_id \in TaskIds :
         /\ Scheduled(task_id)
         /\ WF_vars(FetchExits(task_id) \/ TranscodeExits(task_id))

\* a fetch process need not exit
StallSpec ==
    /\ Init /\ [][Next]_vars
    /\ \A task_id \in TaskIds : Scheduled(task_id) /\ WF_vars(TranscodeExits(task_id))

(***************************************************************************)
(* The standard-error pipes.  Both processes are started with               *)
(* stderr=PIPE.  A pipe, with the buffer of the event loop's stream reader *)
(* where there is one, holds PipeCap bytes; a write to a full pipe blocks  *)
(* the process until a reader takes bytes out.  run_process reads standard *)
(* error after process.wait(), the coroutine of the fetch stage never      *)
(* reads it, and both transcode supervisors read it after the poll loop    *)
(* has seen the exit: no step reads while a process runs, so a blocked     *)
(* process stays blocked.                                                  *)
(***************************************************************************)
\* the fetch process writes one byte to standard error
FetchWritesStderr(task_id) ==
    /\ fproc[task_id] = "running"
    /\ IF stderr_pipe[task_id].fetch < PipeCap
         THEN /\ stderr_pipe' = [stderr_pipe EXCEPT ![task_id].fetch = @ + 1]
              /\ UNCHANGED fproc
         ELSE /\ fproc' = [fproc EXCEPT ![task_id] = "blocked"]
              /\ UNCHANGED stderr_pipe
    /\ resp' = NoResponse
    /\ UNCHANGED <<IS_WINDOWS, active_tasks, dictId, req, pc, loop, tproc, tstderr,
                   elapsed, files, observed, call>>

\* the transcode process writes one byte to standard error
TranscodeWritesStderr(task_id) ==
    /\ tproc[task_id] = "running"
    /\ IF stderr_pipe[task_id].transcode < PipeCap
         THEN /\ stderr_pipe' = [stderr_pipe EXCEPT ![task_id].transcode = @ + 1]
              /\ UNCHANGED tproc
         ELSE /\ tproc' = [tproc EXCEPT ![task_id] = "blocked"]
              /\ UNCHANGED stderr_pipe
    /\ resp' = NoResponse
    /\ UNCHANGED <<IS_WINDOWS, active_tasks, dictId, req, pc, loop, fproc, tstderr,
                   elapsed, files, observed, call>>

PipeNext ==
    \/ Next
    \/ \E task_id \in TaskIds : FetchWritesStderr(task_id)
    \/ \E task_id \in TaskIds : TranscodeWritesStderr(task_id)

\* every process that is not blocked in a write exits
PipeSpec ==
    /\ Init /\ [][PipeNext]_vars
    /\ \A task_id \in TaskIds :
         /\ Scheduled(task_id)
         /\ WF_vars(FetchExits(task_id) \/ TranscodeExits(task_id))

(***************************************************************************)
(* The worker pool under load: one job more than executor has threads, on  *)
(* the platform whose fetch supervisor runs in a worker thread.  The fetch *)
(* processes print lines without progress and fail, so that every pipeline *)
(* ends at the test of the exit code.                                      *)
(***************************************************************************)
PoolIds == 1..(MaxWorkers + 1)
PoolLines == {[kind |-> "other"]}

PoolInit ==
    /\ IS_WINDOWS = TRUE
    /\ active_tasks = <<>>
    /\ dictId = [j \in PoolIds |-> 0]
    /\ req = [j \in PoolIds |-> [kind |-> "video", format |-> "mp4"]]
    /\ pc = [j \in PoolIds |-> "none"]
    /\ loop = Idle
    /\ fproc = [j \in PoolIds |-> "none"]
    /\ tproc = [j \in PoolIds |-> "none"]
    /\ tstderr = [j \in PoolIds |-> ""]
    /\ elapsed = [j \in PoolIds |-> NoClock]
    /\ files = [j \in PoolIds |-> FALSE]
    /\ resp = NoResponse
    /\ observed = [j \in PoolIds |-> NoResponse]
    /\ call = NoCall
    /\ stderr_pipe = [j \in PoolIds |-> NoBytes]

\* the steps of a pipeline up to the test of the exit code
PoolStep(task_id) ==
    \/ SeedDownloading(task_id)
    \/ SetFetchStart(task_id)
    \/ SetFetchMessage(task_id)
    \/ SubmitToExecutor(task_id)
    \/ WorkerTakes(task_id)
    \/ RunProcessPopen(task_id)
    \/ FutureRaised(task_id)
    \/ ThreadEof(task_id)
    \/ CheckFetch(task_id)

\* the fetch process fails
PoolExits(task_id) == FetchExit(task_id, "exit1", FALSE)

PoolNext ==
    \/ \E fmt \in RequestFormats : process_video(fmt)
    \/ \E task_id \in PoolIds : PoolStep(task_id)
    \/ \E task_id \in PoolIds : \E line \in PoolLines : ThreadLine(task_id, line)
    \/ \E task_id \in PoolIds : PoolExits(task_id)

\* every pipeline and every worker thread runs on, and every fetch process exits
PoolSpec ==
    /\ PoolInit /\ [][PoolNext]_vars
    /\ \A task_id \in PoolIds : WF_vars(PoolStep(task_id) \/ PoolExits(task_id))

(***************************************************************************)
(* The pure functions of the pipeline: the Format Selector and the         *)
(* construction of the transcode command.  A string that the code takes    *)
(* apart is a sequence of its pieces: characters for a video pick, and for *)
(* an audio pick characters and the unit "kbps".  None and the empty       *)
(* string are both the empty sequence: the code tests them by truth value. *)
(***************************************************************************)
DigitValue ==
    ("0" :> 0) @@ ("1" :> 1) @@ ("2" :> 2) @@ ("3" :> 3) @@ ("4" :> 4) @@
    ("5" :> 5) @@ ("6" :> 6) @@ ("7" :> 7) @@ ("8" :> 8) @@ ("9" :> 9)

Range(seq) == {seq[i] : i \in 1..Len(seq)}

\* s.replace(piece, "")
Remove(s, piece) == SelectSeq(s, LAMBDA c : c # piece)

\* int(s) does not raise ValueError, for a string of digits and letters
ParsesInt(s) == s # <<>> /\ \A i \in 1..Len(s) : s[i] \in DOMAIN DigitValue

RECURSIVE IntOf(_)
IntOf(s) ==
    IF s = <<>> THEN 0
    ELSE 10 * IntOf(SubSeq(s, 1, Len(s) - 1)) + DigitValue[s[Len(s)]]

\* a selection expression is the sequence of its alternatives, separated by
\* "/" in the text; an alternative names a stream with its filters, or a video
\* and an audio stream joined by "+"
FormatSelectors ==
    ("best" :> <<[sel |-> "best", ext |-> "mp4"], [sel |-> "best"]>>)
    @@ ("high" :> <<[sel |-> "best", height_le |-> 1080, ext |-> "mp4"],
                    [sel |-> "best", height_le |-> 1080]>>)
    @@ ("medium" :> <<[sel |-> "best", height_le |-> 720, ext |-> "mp4"],
                      [sel |-> "best", height_le |-> 720]>>)
    @@ ("low" :> <<[sel |-> "best", height_le |-> 480, ext |-> "mp4"],
                   [sel |-> "best", height_le |-> 480]>>)

\* the fallback as it would be if an unknown quality were read as high
QualitySelectorDefaultsHigh(quality) ==
    IF quality \in DOMAIN FormatSelectors
      THEN FormatSelectors[quality] ELSE FormatSelectors["high"]

\* format_selectors.get(quality, "best[ext=mp4]/best")
QualitySelector(quality) ==
    IF quality \in DOMAIN FormatSelectors
      THEN FormatSelectors[quality]
      ELSE <<[sel |-> "best", ext |-> "mp4"], [sel |-> "best"]>>

\* the audio stream of an explicit pick: bestaudio, narrowed to bitrate +-10
\* when the audio pick holds "kbps" and is a number without it
AudioSelector(selected_audio_format) ==
    LET digits == Remove(selected_audio_format, "kbps")
    IN  IF /\ selected_audio_format # <<>>
           /\ "kbps" \in Range(selected_audio_format)
           /\ ParsesInt(digits)
          THEN [sel |-> "bestaudio", abr_le |-> IntOf(digits) + 10,
                abr_ge |-> IntOf(digits) - 10]
          ELSE [sel |-> "bestaudio"]

get_optimized_format_selector(quality, selected_video_format, selected_audio_format) ==
    LET digits == Remove(selected_video_format, "p")
    IN  IF selected_video_format # <<>> /\ ParsesInt(digits)
          THEN <<[video |-> [sel |-> "bestvideo", height |-> IntOf(digits)],
                  audio |-> AudioSelector(selected_audio_format)],
                 [sel |-> "best", height |-> IntOf(digits)],
                 [sel |-> "best"]>>
          ELSE QualitySelector(quality)

\* the inputs of the Format Selector
Qualities == {"best", "high", "medium", "low", "ultra", ""}
PickChars == {"7", "2", "0", "p", "k"}
VideoPicks == UNION {[1..n -> PickChars] : n \in 0..MaxPick}
AudioPicks == {<<>>, <<"1", "2", "8", "kbps">>, <<"kbps">>, <<"1", "2", "8">>}

SelectFormat(quality, video, audio) ==
    /\ call = NoCall
    /\ call' = [fn |-> "select", quality |-> quality, video |-> video, audio |-> audio,
                result |-> get_optimized_format_selector(quality, video, audio)]
    /\ UNCHANGED <<IS_WINDOWS, active_tasks, dictId, req, pc, loop, fproc, tproc,
                   tstderr, elapsed, files, resp, observed, stderr_pipe>>

\* TrimOptions as it would be if each bound were passed on by itself
TrimOptionsEither(trim_start, trim_end) ==
    (IF trim_start # "" THEN <<"-ss", trim_start>> ELSE <<>>)
        \o (IF trim_end # "" THEN <<"-to", trim_end>> ELSE <<>>)

\* if trim_start and trim_end: ffmpeg_cmd.extend(["-ss", trim_start, "-to", trim_end]);
\* None and "" are both ""
TrimOptions(trim_start, trim_end) ==
    IF trim_start # "" /\ trim_end # ""
      THEN <<"-ss", trim_start, "-to", trim_end>> ELSE <<>>

\* the format-specific options of the two pipelines
FormatOptions(kind, output_format) ==
    IF kind = "video"
      THEN IF output_format = "mp4"
             THEN <<"-c:v", "libx264", "-preset", "fast", "-c:a", "aac",
                    "-movflags", "+faststart">>
           ELSE IF output_format = "mp3"
             THEN <<"-vn", "-ar", "44100", "-ac", "2", "-b:a", "192k">>
           ELSE IF output_format = "mkv" THEN <<"-c", "copy">>
           ELSE <<>>
      ELSE IF output_format = "m4a" THEN <<"-vn", "-c:a", "aac", "-b:a", "192k">>
           ELSE IF output_format = "ogg" THEN <<"-vn", "-c:a", "libvorbis", "-q:a", "4">>
           ELSE IF output_format = "wav" THEN <<"-vn", "-ar", "44100", "-ac", "2">>
           ELSE <<"-vn", "-ar", "44100", "-ac", "2", "-b:a", "192k">>

\* ffmpeg_cmd, with the paths of the fetched file and of the output as they are
ffmpeg_cmd(kind, output_format, trim_start, trim_end) ==
    <<"ffmpeg", "-y", "-hide_banner", "-loglevel", "error", "-i", "downloaded_file">>
        \o TrimOptions(trim_start, trim_end)
        \o FormatOptions(kind, output_format)
        \o <<"final_output">>

\* the inputs of the command
Trims == {"", "00:00:30", "00:01:30"}
OutputFormats == {"mp4", "mp3", "mkv", "m4a", "ogg", "wav", "flac"}

BuildCommand(kind, output_format, trim_start, trim_end) ==
    /\ call = NoCall
    /\ call' = [fn |-> "ffmpeg", kind |-> kind, format |-> output_format,
                trim_start |-> trim_start, trim_end |-> trim_end,
                result |-> ffmpeg_cmd(kind, output_format, trim_start, trim_end)]
    /\ UNCHANGED <<IS_WINDOWS, active_tasks, dictId, req, pc, loop, fproc, tproc,
                   tstderr, elapsed, files, resp, observed, stderr_pipe>>

\* one call of a function, with any arguments
FnNext ==
    \/ \E quality \in Qualities, video \in VideoPicks, audio \in AudioPicks :
          SelectFormat(quality, video, audio)
    \/ \E kind \in {"video", "audio"}, output_format \in OutputFormats,
           trim_start \in Trims, trim_end \in Trims :
          BuildCommand(kind, output_format, trim_start, trim_end)

FnSpec == Init /\ [][FnNext]_vars

(***************************************************************************)
(* Properties.                                                             *)
(***************************************************************************)
Submitted == DOMAIN active_tasks
Terminal == {"completed", "failed"}
StatusOf(task_id) == active_tasks[task_id].status

StatusEdges ==
    {<<"pending", "downloading">>, <<"downloading", "processing">>,
     <<"processing", "completed">>, <<"downloading", "failed">>,
     <<"processing", "failed">>}

\* C1: a job's first status is pending, and every step that changes its status
\* follows pending -> downloading -> processing -> completed, or goes from
\* downloading or processing to failed: no status is revisited or skipped and
\* failed is never entered from pending.
C1_StatusOrder ==
    [][\A j \in TaskIds :
         j \in DOMAIN active_tasks' =>
           IF j \in Submitted
             THEN \/ active_tasks'[j].status = StatusOf(j)
                  \/ <<StatusOf(j), active_tasks'[j].status>> \in StatusEdges
             ELSE active_tasks'[j].status = "pending"]_vars

\* a job failed in the transcode stage, after pending, downloading and processing
C1_Witness ==
    \E j \in Submitted : StatusOf(j) = "failed" /\ tproc[j] = "exit1"

\* C2: every accepted job eventually has status completed or failed, whatever
\* exception is raised on the way, when every step is scheduled and every
\* launched process exits.
C2_EventuallyTerminal ==
    \A j \in TaskIds : (j \in Submitted) ~> (j \in Submitted /\ StatusOf(j) \in Terminal)

\* a job ended by the handler of an exception
C2_Witness ==
    \E j \in Submitted :
        /\ StatusOf(j) = "failed"
        /\ IsSet(active_tasks[j], "error")
        /\ active_tasks[j].error \in ExcDescs

\* C3: a completed record has download_url and no error; a failed record has
\* error and no download_url.
C3_TerminalFields ==
    \A j \in Submitted :
        /\ StatusOf(j) = "completed" =>
             IsSet(active_tasks[j], "download_url") /\ ~IsSet(active_tasks[j], "error")
        /\ StatusOf(j) = "failed" =>
             IsSet(active_tasks[j], "error") /\ ~IsSet(active_tasks[j], "download_url")

Replied(r) == r.nth # 0 /\ r.reply.code = 200

\* C4: of two reads of a job made in order before the job is terminal, the later
\* one returns a progress at least that of the earlier one.
C4_MonotoneReads ==
    [][\A j \in TaskIds :
         (/\ Replied(observed[j])
          /\ Replied(observed'[j])
          /\ observed'[j].reply.body.status \notin Terminal)
         => observed'[j].reply.body.progress >= observed[j].reply.body.progress]_vars

\* C5: every step that changes the record of a job stores a new dict under its
\* identifier: no step changes a field of the dict that stays in the map.
C5_WholeRecordWrites ==
    [][\A j \in Submitted :
         active_tasks'[j] # active_tasks[j] => dictId'[j] # dictId[j]]_vars

\* C6: when the message of a returned record carries a percentage, it is the
\* progress of that record.
C6_NoTornRead ==
    (Replied(resp) /\ IsSet(resp.reply.body.message, "pct"))
        => resp.reply.body.message.pct = resp.reply.body.progress

\* C7: no job stays in status downloading forever, even when its fetch process
\* never exits.
C7_DownloadingEnds ==
    \A j \in TaskIds :
        (j \in Submitted /\ StatusOf(j) = "downloading")
            ~> (j \in Submitted /\ StatusOf(j) # "downloading")

\* C8: once the record of a job has status completed or failed, no step changes
\* the record or the dict that holds it.
C8_TerminalIsFinal ==
    [][\A j \in Submitted :
         StatusOf(j) \in Terminal =>
            /\ j \in DOMAIN active_tasks'
            /\ active_tasks'[j] = active_tasks[j]
            /\ dictId'[j] = dictId[j]]_vars

\* a status request served for a job that has ended
C8_Witness ==
    Replied(resp) /\ resp.reply.body.status \in Terminal

\* C9: a status read leaves active_tasks as it is, and a read of the identifier
\* of the read served just before it, with no step in between, gets the same reply.
C9_ReadIdempotent ==
    [][resp'.nth # 0 =>
         /\ active_tasks' = active_tasks
         /\ dictId' = dictId
         /\ (resp.nth # 0 /\ resp.reply.task_id = resp'.reply.task_id)
              => resp'.reply = resp.reply]_vars

\* two reads in a row of a job in its transcode stage
C9_Witness ==
    resp.nth = 2 /\ Replied(resp) /\ resp.reply.body.status = "processing"

\* C10: a read of an identifier that no submission returned is answered not
\* found and creates no entry.
C10_UnknownNotFound ==
    [][(resp'.nth # 0 /\ resp'.reply.task_id \notin Submitted) =>
         /\ resp'.reply = NotFound(resp'.reply.task_id)
         /\ DOMAIN active_tasks' = Submitted]_vars

\* a not-found reply while a job is in the map
C10_Witness ==
    resp.nth # 0 /\ resp.reply.code = 404 /\ Submitted # {}

TranscodeLabels ==
    {"set60", "msg60", "launch_ff", "poll", "poll_msg", "sleep", "check_ff", "complete"}

\* C11: when the supervisor of the fetch stage returns a non-zero exit code, in
\* either supervision mode, the next step of the pipeline stores the failed
\* record with error "Process exited with non-zero code" and ends the pipeline;
\* a job whose fetch process exited non-zero is never in the transcode stage and
\* has no transcode process.
C11_NonZeroFetchFails ==
    [][\A j \in Submitted :
         /\ (pc[j] = "check_rc" /\ pc'[j] # "check_rc" /\ fproc[j] = "exit1") =>
               /\ pc'[j] = "done"
               /\ active_tasks'[j].status = "failed"
               /\ IsSet(active_tasks'[j], "error")
               /\ active_tasks'[j].error = "Process exited with non-zero code"
         /\ fproc'[j] = "exit1" =>
               (pc'[j] \notin TranscodeLabels /\ tproc'[j] = "none")]_vars

\* the worker thread's supervisor returned a non-zero code, although the
\* fetched file is there, and the job was failed
C11_Witness ==
    \E j \in Submitted :
        /\ IS_WINDOWS
        /\ fproc[j] = "exit1"
        /\ files[j]
        /\ pc[j] = "done"
        /\ StatusOf(j) = "failed"
        /\ active_tasks[j].error = "Process exited with non-zero code"

\* C12: no step removes an identifier from active_tasks: every identifier in the
\* map before a submission, a pipeline step or a status read is in it after the
\* step, under the one key it was seeded with.
C12_NeverShrinks ==
    [][/\ Submitted \subseteq DOMAIN active_tasks'
       /\ DOMAIN active_tasks' \subseteq TaskIds]_vars

\* two jobs were submitted and have ended, and a status request was served
C12_Witness ==
    /\ Cardinality(Submitted) = PairJobs
    /\ \A j \in Submitted : StatusOf(j) \in Terminal
    /\ resp.nth # 0

\* everything the pipeline of task_id reads or writes that belongs to its job
Local(task_id) ==
    <<IF task_id \in DOMAIN active_tasks THEN <<active_tasks[task_id]>> ELSE <<>>,
      dictId[task_id], req[task_id], pc[task_id], fproc[task_id], tproc[task_id],
      tstderr[task_id], elapsed[task_id], files[task_id]>>

\* C13: a step that changes anything of one job (its record, its pipeline's
\* position, its processes or its files), a failure path included, leaves all
\* of that of every other job as it was; and a pipeline that holds the event
\* loop always has a step to take, so that it hands the loop on to the others.
C13_OtherJobsUntouched ==
    /\ [](loop # Idle => ENABLED PipelineStep(loop))
    /\ [][\A a, b \in TaskIds :
            (a # b /\ Local(a)' # Local(a)) => Local(b)' = Local(b)]_vars

\* of two jobs of one run, one was failed by an exception and the other completed
C13_Witness ==
    \E a, b \in Submitted :
        /\ a # b
        /\ StatusOf(a) = "failed"
        /\ active_tasks[a].progress = 0
        /\ IsSet(active_tasks[a], "error")
        /\ active_tasks[a].error \in ExcDescs
        /\ StatusOf(b) = "completed"

\* the pipeline of task_id is at a statement that can raise, and not at a test
\* that ends it with a failed record of its own
CanRaise(task_id) ==
    \/ pc[task_id] \in {"launch", "future_raised", "readline", "launch_ff"}
    \/ pc[task_id] = "check_ff" /\ tproc[task_id] = "exit0"

\* C14: a step that ends a pipeline from a statement that raised leaves the
\* record failed, with progress 0 and error the description of the exception;
\* and a pipeline that has ended, in whatever way, has left a terminal record:
\* no exception leaves the function with the record as it was.
C14_ExceptionFails ==
    [][\A j \in Submitted :
         pc'[j] = "done" =>
            /\ active_tasks'[j].status \in Terminal
            /\ (pc[j] # "done" /\ CanRaise(j)) =>
                  /\ active_tasks'[j].status = "failed"
                  /\ active_tasks'[j].progress = 0
                  /\ IsSet(active_tasks'[j], "error")
                  /\ active_tasks'[j].error \in ExcDescs]_vars

\* Popen raised in the worker thread and the pipeline got it from the future
C14_Witness ==
    \E j \in Submitted :
        /\ IS_WINDOWS
        /\ pc[j] = "done"
        /\ fproc[j] = "none"
        /\ StatusOf(j) = "failed"
        /\ active_tasks[j].error \in ExcDescs

\* C15: the download_url of a completed job is "/downloads/" followed by
\* <task_id>.<format>, the format being the one its pipeline was started with,
\* or mp3 for an audio job started with a format outside mp3, m4a, ogg, wav.
C15_DownloadUrl ==
    \A j \in Submitted :
        StatusOf(j) = "completed" =>
            /\ IsSet(active_tasks[j], "download_url")
            /\ active_tasks[j].download_url =
                 <<"/downloads/", j, ".",
                   IF req[j].kind = "audio"
                        /\ req[j].format \notin {"mp3", "m4a", "ogg", "wav"}
                     THEN "mp3" ELSE req[j].format>>

\* an audio job requested as mkv has completed as mp3
C15_Witness ==
    \E j \in Submitted :
        /\ req[j].kind = "audio"
        /\ StatusOf(j) = "completed"
        /\ active_tasks[j].download_url = <<"/downloads/", j, ".", "mp3">>

\* C16: after the transcode process has exited 0, no step of the pipeline
\* stores a failed record: a deletion of the fetched file that fails is passed
\* over and the job completes.
C16_DeletionNonFatal ==
    [][\A j \in Submitted :
         (pc[j] = "check_ff" /\ tproc[j] = "exit0") =>
            active_tasks'[j].status # "failed"]_vars

\* the step is a progress write of the line-stream supervisor of job j
LineWrite(j) ==
    pc[j] \in {"readline", "t_line"} /\ pc'[j] \in {"u_msg", "t_msg"}

\* the step is a progress write of the poll supervisor of job j
PollWrite(j) ==
    pc[j] = "poll" /\ pc'[j] = "poll_msg"

\* the supervisor that runs for job j has written a progress before: only the
\* supervisors write a message that carries a percentage
WroteBefore(j) == IsSet(active_tasks[j].message, "pct")

\* C17: both supervisors write progress values inside the sub-range of their
\* stage (5..45 for the line-stream supervisor, 60..90 for the poll supervisor)
\* and each value a supervisor writes is greater than the one it wrote before.
C17_SupervisorsAgree ==
    [][\A j \in Submitted :
         /\ LineWrite(j) =>
              /\ active_tasks'[j].progress \in FetchFloor..FetchCeil
              /\ WroteBefore(j) => active_tasks'[j].progress > active_tasks[j].progress
         /\ PollWrite(j) =>
              /\ active_tasks'[j].progress \in TranscodeFloor..TranscodeCeil
              /\ WroteBefore(j) => active_tasks'[j].progress > active_tasks[j].progress]_vars

\* C18: while a job is in its fetch stage, no step stores a progress lower than
\* the progress stored before it.
C18_FetchNeverLowers ==
    [][\A j \in Submitted :
         (StatusOf(j) = "downloading" /\ active_tasks'[j].status = "downloading") =>
            active_tasks'[j].progress >= active_tasks[j].progress]_vars

\* C19: a step that takes the line download:<d>/<t> with t > 0 stores the
\* progress 5 + floor(40*d/t), kept between 5 and 45; a step that takes a line
\* with an unknown or zero total, or a line of another form, leaves
\* active_tasks as it is and the supervisor goes on to the next line.
C19_LineProgress ==
    [][\A j \in Submitted : \A line \in Lines :
         (ReadLine(j, line) \/ ThreadLine(j, line)) =>
            IF line.kind = "counts" /\ line.t > 0
              THEN LET exact == 5 + (40 * line.d) \div line.t
                   IN  active_tasks'[j].progress =
                         (IF exact > 45 THEN 45 ELSE IF exact < 5 THEN 5 ELSE exact)
              ELSE /\ active_tasks' = active_tasks
                   /\ pc'[j] = pc[j]
                   /\ fproc'[j] = "running"]_vars

\* the line download:1/2 was taken: progress 25, its message not yet written
C19_Witness ==
    \E j \in Submitted :
        /\ pc[j] \in {"u_msg", "t_msg"}
        /\ active_tasks[j].progress = 25

\* C20: every progress write of the transcode loop stores
\* 60 + floor(30*elapsed/budget), kept between 60 and 90, budget being 30
\* seconds for a video job and 20 for an audio job, and stores no less than
\* the progress stored before it.
C20_TranscodeProgress ==
    [][\A j \in Submitted :
         PollWrite(j) =>
            LET budget == IF req[j].kind = "video" THEN 30 ELSE 20
                exact == 60 + (30 * elapsed[j].secs) \div budget
            IN  /\ active_tasks'[j].progress =
                     (IF exact > 90 THEN 90 ELSE IF exact < 60 THEN 60 ELSE exact)
                /\ active_tasks'[j].progress >= active_tasks[j].progress]_vars

\* an audio job, 15 seconds into its transcode stage, at 82
C20_Witness ==
    \E j \in Submitted :
        /\ req[j].kind = "audio"
        /\ StatusOf(j) = "processing"
        /\ elapsed[j].secs = SleepSec + Stall
        /\ active_tasks[j].progress = 82

\* C21: the step that follows a non-zero exit code of the transcode process
\* stores the failed record, with error the text the process wrote to standard
\* error when there is any and "Unknown error" when there is none.
C21_TranscodeFailure ==
    [][\A j \in Submitted :
         (pc[j] = "check_ff" /\ pc'[j] # "check_ff" /\ tproc[j] = "exit1") =>
            /\ pc'[j] = "done"
            /\ active_tasks'[j].status = "failed"
            /\ IsSet(active_tasks'[j], "error")
            /\ active_tasks'[j].error =
                 (IF tstderr[j] = "" THEN "Unknown error" ELSE tstderr[j])]_vars

\* a transcode process exited non-zero without a word and the job was failed
C21_Witness ==
    \E j \in Submitted :
        /\ tproc[j] = "exit1"
        /\ tstderr[j] = ""
        /\ pc[j] = "done"
        /\ StatusOf(j) = "failed"
        /\ active_tasks[j].error = "Unknown error"

\* C22: a step removes the fetched file of a job only when the job's transcode
\* process has exited 0 and its record is still the processing one; the step
\* after the removal stores the completed record, so that no job whose file
\* the pipeline removed ends failed.
C22_DeleteAfterSuccess ==
    [][\A j \in Submitted :
         /\ (files[j] /\ ~files'[j]) =>
               /\ tproc[j] = "exit0"
               /\ StatusOf(j) = "processing"
               /\ active_tasks'[j] = active_tasks[j]
               /\ pc'[j] = "complete"
         /\ (pc[j] = "complete" /\ pc'[j] # "complete") =>
               active_tasks'[j].status = "completed"
         /\ active_tasks'[j].status = "failed" => (files[j] => files'[j])]_vars

\* the file is gone and the completed record is not yet written
C22_Witness ==
    \E j \in Submitted :
        /\ pc[j] = "complete"
        /\ ~files[j]
        /\ tproc[j] = "exit0"
        /\ StatusOf(j) = "processing"

\* C23: the step that launches the transcode process of a job finds the job's
\* fetch process exited 0, a file <task_id>.* in place and the record
\* processing; and the step that follows an exit code 0 of the fetch process
\* when no such file is there stores a failed record over the downloading one
\* and ends the pipeline.
C23_TranscodeNeedsFile ==
    [][\A j \in Submitted :
         /\ (tproc[j] = "none" /\ tproc'[j] # "none") =>
               /\ fproc[j] = "exit0"
               /\ files[j]
               /\ StatusOf(j) = "processing"
         /\ (pc[j] = "check_rc" /\ pc'[j] # "check_rc"
               /\ fproc[j] = "exit0" /\ ~files[j]) =>
               /\ StatusOf(j) = "downloading"
               /\ active_tasks'[j].status = "failed"
               /\ pc'[j] = "done"
               /\ tproc'[j] = "none"]_vars

\* a fetch process exited 0 without leaving a file and the job was failed
C23_Witness ==
    \E j \in Submitted :
        /\ fproc[j] = "exit0"
        /\ ~files[j]
        /\ tproc[j] = "none"
        /\ pc[j] = "done"
        /\ StatusOf(j) = "failed"
        /\ ~IsSet(active_tasks[j], "error")

\* C24: with one job more than executor has worker threads, never more than
\* MaxWorkers fetch supervisors run at a time, and every supervisor that waits
\* in the queue of executor is started, when every fetch process exits.
C24_PoolBounded ==
    /\ [](Cardinality(InThread) <= MaxWorkers)
    /\ \A j \in PoolIds : (pc[j] = "t_queued") ~> (pc[j] # "t_queued")

\* every worker thread runs a supervisor and one more supervisor waits
C24_Witness ==
    /\ Cardinality(InThread) = MaxWorkers
    /\ \E j \in PoolIds : pc[j] = "t_queued"

\* the height ceilings of the alternatives of a selection expression
Ceilings(expr) ==
    {IF IsSet(expr[i], "height_le") THEN expr[i].height_le ELSE 0 : i \in 1..Len(expr)}

\* the pick, once its letters p are dropped, is a non-empty string of digits
PickIsNumber(pick) ==
    /\ \E i \in 1..Len(pick) : pick[i] # "p"
    /\ \A i \in 1..Len(pick) :
         pick[i] \in {"p", "0", "1", "2", "3", "4", "5", "6", "7", "8", "9"}

\* C25: called without a video pick, or with a video pick that is no number,
\* the Format Selector returns a non-empty expression whose alternatives all
\* carry the height ceiling 1080 for high, 720 for medium and 480 for low, and
\* carry no height at all for best and for any other quality; and the result
\* for a pick that is no number is the result for no pick.
C25_QualityCeiling ==
    (call.fn = "select" /\ ~PickIsNumber(call.video)) =>
        /\ Len(call.result) > 0
        /\ Ceilings(call.result) =
             (IF call.quality = "high" THEN {1080}
              ELSE IF call.quality = "medium" THEN {720}
              ELSE IF call.quality = "low" THEN {480}
              ELSE {0})
        /\ \A i \in 1..Len(call.result) :
             ~IsSet(call.result[i], "height") /\ ~IsSet(call.result[i], "video")
        /\ call.result = get_optimized_format_selector(call.quality, <<>>, <<>>)

\* an unknown quality with a pick that is no number and a well-formed audio pick
C25_Witness ==
    /\ call.fn = "select"
    /\ call.quality = "ultra"
    /\ call.video = <<"7", "k">>
    /\ call.audio = <<"1", "2", "8", "kbps">>
    /\ Len(call.result) = 2

\* C26: the transcode command holds "-ss" <start> "-to" <end>, once and in
\* this order, when both bounds of the trim window are supplied, and holds
\* neither "-ss" nor "-to" when one of them or both are missing.
C26_TrimBothOrNone ==
    call.fn = "ffmpeg" =>
        LET cmd == call.result
            at(opt) == {i \in 1..Len(cmd) : cmd[i] = opt}
        IN  IF call.trim_start # "" /\ call.trim_end # ""
              THEN /\ Cardinality(at("-ss")) = 1
                   /\ Cardinality(at("-to")) = 1
                   /\ \E i \in at("-ss") :
                        /\ i + 3 <= Len(cmd)
                        /\ cmd[i + 1] = call.trim_start
                        /\ cmd[i + 2] = "-to"
                        /\ cmd[i + 3] = call.trim_end
              ELSE at("-ss") = {} /\ at("-to") = {}

\* a command built with an end and no start
C26_Witness ==
    /\ call.fn = "ffmpeg"
    /\ call.trim_start = ""
    /\ call.trim_end = "00:01:30"
    /\ call.kind = "audio"
    /\ "-ss" \notin Range(call.result)

\* C27: in every reachable state the status and the progress of a job agree:
\* pending with 0, downloading within 5..45, processing within 50..90,
\* completed with 100 and failed with 0; so a progress of 100 is read from a
\* completed job only.
C27_StatusProgressAgree ==
    \A task_id \in Submitted :
        LET task == active_tasks[task_id]
        IN  /\ task.status = "pending" => task.progress = 0
            /\ task.status = "downloading" => task.progress \in FetchFloor..FetchCeil
            /\ task.status = "processing" => task.progress \in ProcessingStart..TranscodeCeil
            /\ task.status = "completed" => task.progress = Done100
            /\ task.status = "failed" => task.progress = 0
            /\ task.progress = Done100 => task.status = "completed"

\* a job that is still downloading at the ceiling of the fetch range
C27_Witness ==
    \E task_id \in Submitted :
        /\ StatusOf(task_id) = "downloading"
        /\ active_tasks[task_id].progress = FetchCeil

\* the labels at which a supervisor waits for its process
FetchWaits == {"readline", "u_msg", "t_line", "t_msg"}
TranscodeWaits == {"poll", "poll_msg", "sleep"}

\* C28: no supervisor waits for a process that is blocked in a write to its
\* standard-error pipe; every fetch and transcode process that runs exits,
\* whatever it writes to standard error, and every submitted job reaches
\* completed or failed.
C28_PipesNeverBlock ==
    /\ [](\A j \in TaskIds :
            /\ ~(pc[j] \in FetchWaits /\ fproc[j] = "blocked")
            /\ ~(pc[j] \in TranscodeWaits /\ tproc[j] = "blocked"))
    /\ \A j \in TaskIds :
         /\ (fproc[j] = "running") ~> (fproc[j] \in ExitCodes)
         /\ (tproc[j] = "running") ~> (tproc[j] \in ExitCodes)
         /\ (j \in Submitted) ~> (j \in Submitted /\ StatusOf(j) \in Terminal)

\* what the claim compares of a record: everything but the texts
Shape(rec) ==
    [status |-> rec.status, progress |-> rec.progress,
     download_url |-> IsSet(rec, "download_url"), error |-> IsSet(rec, "error")]

ShapeOf(status, progress, download_url, error) ==
    [status |-> status, progress |-> progress,
     download_url |-> download_url, error |-> error]

\* the elapsed time of job j's transcode stage as a share of the stage's
\* budget, in 1/TranscodeSpan
BudgetShare(j) == (TranscodeSpan * elapsed[j].secs) \div Budget(KindOf(j))

\* the one machine: the shape stored by a step of job j, given by the place of
\* the pipeline and the events only, never by the kind of the job
MachineShape(j) ==
    IF pc[j] = pc'[j] \/ j \notin Submitted
      THEN ShapeOf("pending", 0, FALSE, FALSE)
    ELSE IF pc[j] = "start"
      THEN ShapeOf("downloading", FetchFloor, FALSE, FALSE)
    ELSE IF pc[j] = "set10"
      THEN ShapeOf("downloading", FetchStart, FALSE, FALSE)
    ELSE IF pc[j] = "check_rc"
      THEN IF fproc[j] # "exit0" THEN ShapeOf("failed", 0, FALSE, TRUE)
           ELSE IF ~files[j] THEN ShapeOf("failed", 0, FALSE, FALSE)
           ELSE ShapeOf("processing", ProcessingStart, FALSE, FALSE)
    ELSE IF pc[j] = "set60"
      THEN ShapeOf("processing", TranscodeFloor, FALSE, FALSE)
    ELSE IF pc[j] = "poll" /\ pc'[j] = "poll_msg"
      THEN ShapeOf("processing", Min(TranscodeCeil, TranscodeFloor + BudgetShare(j)),
                   FALSE, FALSE)
    ELSE IF pc[j] = "complete"
      THEN ShapeOf("completed", Done100, TRUE, FALSE)
    ELSE ShapeOf("failed", 0, FALSE, TRUE)

\* C29: the video pipeline and the audio pipeline are one state machine.  A
\* step that stores a record or a progress stores, for a job of either kind,
\* the status, the progress, the presence of download_url and the presence of
\* error that the place of the pipeline and the events give (for a line, the
\* mapped byte counts; for a poll, the elapsed share of the job's budget);
\* every other step leaves these four as they are.
C29_OneMachine ==
    [][\A j \in TaskIds :
         /\ (j \in Submitted /\ j \notin DOMAIN active_tasks') => FALSE
         /\ (j \notin Submitted /\ j \in DOMAIN active_tasks') =>
              Shape(active_tasks'[j]) = MachineShape(j)
         /\ \A line \in Lines :
              ((ReadLine(j, line) \/ ThreadLine(j, line)) /\ LineHasPercent(line)) =>
                  Shape(active_tasks'[j]) =
                      ShapeOf("downloading",
                              Min(FetchCeil, FetchFloor + (FetchSpan * line.d) \div line.t),
                              FALSE, FALSE)
         /\ (/\ j \in Submitted
             /\ ~(pc[j] \in {"readline", "t_line"} /\ pc'[j] \in {"u_msg", "t_msg"})) =>
              IF Shape(active_tasks'[j]) # Shape(active_tasks[j])
                THEN Shape(active_tasks'[j]) = MachineShape(j)
                ELSE \/ pc'[j] = pc[j]
                     \/ pc[j] \notin {"start", "set10", "check_rc", "set60", "complete"}]_vars

\* an audio job whose poll wrote the progress of a share of its own budget that
\* a video job has not reached after the same seconds
C29_Witness ==
    \E j \in Submitted :
        /\ KindOf(j) = "audio"
        /\ pc[j] = "poll_msg"
        /\ elapsed[j].secs = 2 * SleepSec + Stall
        /\ active_tasks[j].progress = TranscodeFloor + BudgetShare(j)
        /\ active_tasks[j].progress
               > TranscodeFloor + (TranscodeSpan * elapsed[j].secs) \div VideoBudget

====
